---------------------------- MODULE Spec2Model ----------------------------
(***************************************************************************)
(* CodesMerger: a coordinator discovers source files, writes a document    *)
(* header, and fans the files out to worker threads that format each file  *)
(* as a Markdown block and hand it, under a lock, to a FileWriter that     *)
(* splits the stream over size-bounded output files.                       *)
(*                                                                         *)
(* Text is modelled run-length encoded: a str (and a bytes object) is a    *)
(* sequence of runs [k, n], n >= 1 characters of kind k.  The kinds keep   *)
(* what the code looks at: the UTF-8 width of a character, whether it is   *)
(* a newline, and the '#' and ' ' that make the "# " prefix.  A bytes      *)
(* object may in addition end in a fragment, the first bytes of a          *)
(* character cut by a byte slice.                                          *)
(***************************************************************************)
EXTENDS Integers, Sequences, FiniteSets, TLC

\* ------------------------------------------------------------------ bounds

\* largest split size, in KB, a run is configured with (0 = no splitting)
MaxSplitKB == 1
\* output files a writer may create before the model stops following it
MaxFiles == 5
\* worker threads a run may be configured with
MaxThreads == 2
\* files discovery may return
MaxWork == 2
\* I/O errors the file system may raise during one run
MaxFaults == 1
\* write calls made on a writer used on its own
MaxWrites == 3
\* languages, include patterns and ignore patterns a merger is configured with
MaxList == 2

\* ------------------------------------------------------- program constants

\* utils.py:110  split_size * 1024
KB == 1024
\* utils.py:233  remaining[:100]
ForcedLen == 100

\* --------------------------------------------------------------------- text

Ascii == {"nl", "hash", "sp", "a"}
\* "hi": in the bytes of a file, a byte >= 0x80 that is no part of UTF-8 text
Frags == {"x1", "x2", "x3"}

\* bytes one character of kind k takes in UTF-8 (a fragment: the bytes it has)
Width(k) ==
    CASE k \in Ascii \cup {"hi"} -> 1
      [] k \in {"c2", "x2"} -> 2
      [] k \in {"c3", "x3"} -> 3
      [] k = "c4" -> 4
      [] k = "x1" -> 1

Frag(r) == CASE r = 1 -> "x1" [] r = 2 -> "x2" [] r = 3 -> "x3"

Run(k, n) == [k |-> k, n |-> n]

Min(a, b) == IF a < b THEN a ELSE b
Max(a, b) == IF a > b THEN a ELSE b

\* len(s): characters of a str
RECURSIVE Len_(_)
Len_(t) == IF t = <<>> THEN 0 ELSE Head(t).n + Len_(Tail(t))

\* len(s.encode('utf-8')): bytes of a str
RECURSIVE ByteLen(_)
ByteLen(t) == IF t = <<>> THEN 0 ELSE Width(Head(t).k) * Head(t).n + ByteLen(Tail(t))

\* s[:k]
RECURSIVE Take(_, _)
Take(t, k) ==
    IF k <= 0 \/ t = <<>> THEN <<>>
    ELSE IF k >= Head(t).n THEN <<Head(t)>> \o Take(Tail(t), k - Head(t).n)
    ELSE <<Run(Head(t).k, k)>>

\* s[k:]
RECURSIVE Drop(_, _)
Drop(t, k) ==
    IF k <= 0 \/ t = <<>> THEN t
    ELSE IF k >= Head(t).n THEN Drop(Tail(t), k - Head(t).n)
    ELSE <<Run(Head(t).k, Head(t).n - k)>> \o Tail(t)

\* the number of whole characters of t that lie within its first b bytes
RECURSIVE Fit(_, _)
Fit(t, b) ==
    IF t = <<>> \/ b <= 0 THEN 0
    ELSE LET w == Width(Head(t).k)
             m == Min(Head(t).n, b \div w)
         IN  IF m = Head(t).n THEN m + Fit(Tail(t), b - m * w) ELSE m

\* s.encode('utf-8')[:n]: the whole characters within n bytes, then the cut
\* character's first bytes, if the slice ends inside one
ByteSlice(t, n) ==
    LET j == Fit(t, n)
        r == n - ByteLen(Take(t, j))
    IN  IF r > 0 /\ j < Len_(t) THEN Take(t, j) \o <<Run(Frag(r), 1)>> ELSE Take(t, j)

HasFragment(b) == \E i \in 1..Len(b) : b[i].k \in Frags

\* b.decode('utf-8'): raises UnicodeDecodeError on a truncated character
DecodeLenient(b) == [ok |-> TRUE, str |-> b]
Decode(b) == IF HasFragment(b) THEN [ok |-> FALSE, str |-> <<>>] ELSE [ok |-> TRUE, str |-> b]

\* s.rfind('\n'): 0-based index of the last newline, -1 when there is none
RECURSIVE rfind_nl(_)
rfind_nl(t) ==
    IF t = <<>> THEN -1
    ELSE LET last == t[Len(t)]
             init == SubSeq(t, 1, Len(t) - 1)
         IN  IF last.k = "nl" THEN Len_(t) - 1 ELSE rfind_nl(init)

\* s.startswith('# ')
StartsWithHashSpace(t) ==
    /\ Len(t) >= 2
    /\ t[1] = Run("hash", 1)
    /\ t[2].k = "sp"


\* --------------------------------------------------------------- FileWriter

\* None, and every other falsy str: `not self.header`, `while remaining`
None == <<>>
Truthy(x) == x # <<>>

\* what a file holds: the chunks appended to it, in order.  text is the chunk
\* written; blk and off say which write call it came from and at which
\* character of that call's text it starts (-1: not from a write call);
\* rep marks the header copied into a new split file, forced a chunk cut by
\* the fixed-size fallback.
Piece(blk, off, text, forced, rep) ==
    [blk |-> blk, off |-> off, text |-> text, forced |-> forced, rep |-> rep]

\* the output path: 0 is base_filename, i > 0 is {stem}_{i}{suffix}
get_filename(fw) ==
    IF fw.split_size = 0 THEN 0 ELSE fw.current_file_index

init_new_file_uncounted(s) ==
    LET fw == s.fw
        cf == get_filename(fw)
        seed == Truthy(fw.header) /\ fw.current_file_index > 1
        data == IF seed THEN <<Piece(-1, -1, fw.header, FALSE, TRUE)>> ELSE <<>>
    IN  [fw |-> [fw EXCEPT !.current_file = cf,
                           !.current_size = 0,
                           !.generated_files = Append(@, cf)],
         disk |-> (cf :> data) @@ s.disk]

\* FileWriter._init_new_file on s = [fw, disk]; an existing file without
\* force_overwrite is only logged, then truncated like any other
init_new_file(s) ==
    LET fw == s.fw
        cf == get_filename(fw)
        seed == Truthy(fw.header) /\ fw.current_file_index > 1
        data == IF seed THEN <<Piece(-1, -1, fw.header, FALSE, TRUE)>> ELSE <<>>
    IN  [fw |-> [fw EXCEPT !.current_file = cf,
                           !.current_size = IF seed THEN ByteLen(fw.header) ELSE 0,
                           !.generated_files = Append(@, cf)],
         disk |-> (cf :> data) @@ s.disk]

\* FileWriter.__init__
FileWriter(disk, split_size, force_overwrite) ==
    init_new_file([fw |-> [split_size |-> IF split_size > 0 THEN split_size * KB ELSE 0,
                           force_overwrite |-> force_overwrite,
                           current_file_index |-> 1,
                           current_file |-> 0,
                           current_size |-> 0,
                           header |-> None,
                           generated_files |-> <<>>],
                   disk |-> disk])

\* FileWriter._write_chunk: open(..., 'a') creates the file when it is missing
write_chunk(s, chunk, blk, off, forced) ==
    LET cf == s.fw.current_file
        old == IF cf \in DOMAIN s.disk THEN s.disk[cf] ELSE <<>>
    IN  [fw |-> [s.fw EXCEPT !.current_size = @ + ByteLen(chunk)],
         disk |-> (cf :> Append(old, Piece(blk, off, chunk, forced, FALSE))) @@ s.disk]

roll_over_same(s) == init_new_file(s)

\* self.current_file_index += 1; self._init_new_file()
roll_over(s) ==
    init_new_file([s EXCEPT !.fw.current_file_index = @ + 1])

\* the inner loop of write (lines 212-229): the largest chunk_size <= available
\* whose byte prefix decodes, 0 when none does; a chunk_size <= 0 to start
\* with is returned as it is, the loop body never runs
RECURSIVE find_chunk_size(_, _)
find_chunk_size(remaining, chunk_size) ==
    IF chunk_size <= 0 THEN chunk_size
    ELSE IF Decode(ByteSlice(remaining, chunk_size)).ok THEN chunk_size
    ELSE find_chunk_size(remaining, chunk_size - 1)

split_chunk_any_newline(remaining, chunk_size) ==
    LET chunk == Decode(ByteSlice(remaining, chunk_size)).str
        last_newline == rfind_nl(chunk)
    IN  IF last_newline >= 0 THEN Take(chunk, last_newline + 1) ELSE chunk

\* the chunk cut at chunk_size bytes, ended after its last newline when that
\* newline is not its first character
split_chunk(remaining, chunk_size) ==
    LET chunk == Decode(ByteSlice(remaining, chunk_size)).str
        last_newline == rfind_nl(chunk)
    IN  IF last_newline > 0 THEN Take(chunk, last_newline + 1) ELSE chunk

capture_never(fw, content) == fw

\* if not self.header and content.startswith('# '): self.header = content
capture_header(fw, content) ==
    IF ~Truthy(fw.header) /\ StartsWithHashSpace(content)
    THEN [fw EXCEPT !.header = content] ELSE fw

\* the head of write (lines 183-191): capture the header; without a split
\* size the content is written whole.  w = [remaining, blk, off] is the
\* call's local state; `more` says whether the splitting loop is to run.
write_begin(s, content, blk) ==
    LET s1 == [s EXCEPT !.fw = capture_header(s.fw, content)]
    IN  IF s1.fw.split_size = 0
        THEN [s |-> write_chunk(s1, content, blk, 0, FALSE),
              w |-> [remaining |-> <<>>, blk |-> blk, off |-> Len_(content)],
              more |-> FALSE]
        ELSE [s |-> s1,
              w |-> [remaining |-> content, blk |-> blk, off |-> 0],
              more |-> Truthy(content)]

\* remaining = remaining[len(chunk):]
advance_bytes(remaining, chunk, chunk_size) == Drop(remaining, chunk_size)
advance(remaining, chunk, chunk_size) == Drop(remaining, Len_(chunk))

\* one iteration of `while remaining` (lines 195-237)
write_iter(s, w) ==
    LET full == Max(0, s.fw.split_size - s.fw.current_size) = 0
        s1 == IF full THEN roll_over(s) ELSE s
        available_size == s1.fw.split_size - s1.fw.current_size
        remaining == w.remaining
        chunk_size == find_chunk_size(remaining, available_size)
        chunk == IF chunk_size > 0 THEN split_chunk(remaining, chunk_size)
                 ELSE Take(remaining, ForcedLen)
        rest == IF chunk_size > 0 THEN advance(remaining, chunk, chunk_size)
                ELSE Drop(remaining, ForcedLen)
    IN  IF ByteLen(remaining) <= available_size
        THEN [s |-> write_chunk(s1, remaining, w.blk, w.off, FALSE),
              w |-> [w EXCEPT !.remaining = <<>>, !.off = @ + Len_(remaining)],
              more |-> FALSE]
        ELSE IF chunk_size >= 0
        THEN [s |-> roll_over(write_chunk(s1, chunk, w.blk, w.off, chunk_size = 0)),
              w |-> [w EXCEPT !.remaining = rest, !.off = @ + Len_(chunk)],
              more |-> Truthy(rest)]
        ELSE [s |-> s1, w |-> w, more |-> TRUE]


\* ------------------------------------------------------------- source tree

\* the files under source_dir, in the order rglob enumerates them
SourceFiles == {1, 2, 3}

\* whether a file can be opened for reading (2 cannot: PermissionError)
can_open(f) == f # 2

\* the bytes of a file.  1: Latin-1 text with accented letters, an odd number
\* of bytes; 3: UTF-8 text, two long ASCII lines and a long line of CJK
file_bytes(f) ==
    CASE f = 1 -> <<Run("a", 20), Run("hi", 3), Run("a", 5), Run("nl", 1)>>
      [] f = 2 -> <<Run("a", 10)>>
      [] f = 3 -> <<Run("a", 400), Run("nl", 1), Run("a", 400), Run("nl", 1),
                    Run("c3", 300), Run("nl", 1)>>

HasHigh(b) == \E i \in 1..Len(b) : b[i].k = "hi"
HighBytes(b) == ByteLen(SelectSeq(b, LAMBDA r : r.k = "hi"))

\* in Latin-1 every byte is a character; re-encoded in UTF-8 a byte >= 0x80
\* takes two bytes
latin1_run(r) ==
    IF r.k \in Ascii THEN r ELSE Run("c2", Width(r.k) * r.n)

\* bytes.decode(encoding) for the encodings get_file_content tries: the text,
\* or UnicodeDecodeError.  UTF-16 pairs the bytes up and fails on an odd
\* count; GB18030 pairs up the bytes >= 0x80.
decode_as(b, encoding) ==
    CASE encoding = "utf-8" ->
           IF HasHigh(b) THEN [exc |-> "UnicodeDecodeError", str |-> <<>>]
           ELSE [exc |-> "", str |-> b]
      [] encoding = "utf-16" ->
           IF ByteLen(b) % 2 = 1 THEN [exc |-> "UnicodeDecodeError", str |-> <<>>]
           ELSE [exc |-> "", str |-> <<Run("c3", ByteLen(b) \div 2)>>]
      [] encoding = "latin1" ->
           [exc |-> "", str |-> [i \in 1..Len(b) |-> latin1_run(b[i])]]
      [] encoding = "gb18030" ->
           IF HighBytes(b) % 2 = 1 THEN [exc |-> "UnicodeDecodeError", str |-> <<>>]
           ELSE [exc |-> "", str |-> [i \in 1..Len(b) |-> latin1_run(b[i])]]

\* file_path.read_text(encoding=...): OSError when the file cannot be opened
\* or the read fails (io_error), else what decoding its bytes gives
read_text(f, encoding, io_error) ==
    IF io_error \/ ~can_open(f) THEN [exc |-> "OSError", str |-> <<>>]
    ELSE decode_as(file_bytes(f), encoding)

\* the loop over the fallback encodings (lines 30-37), inside the handler of
\* UnicodeDecodeError: it catches UnicodeDecodeError alone, any other
\* exception leaves get_file_content
RECURSIVE fallback(_, _, _, _)
fallback(f, encodings, attempt, fault_at) ==
    IF encodings = <<>>
    THEN [raised |-> FALSE, content |-> <<>>, attempts |-> attempt - 1]
    ELSE LET r == read_text(f, Head(encodings), fault_at = attempt)
         IN  IF r.exc = "" THEN [raised |-> FALSE, content |-> r.str, attempts |-> attempt]
             ELSE IF r.exc = "UnicodeDecodeError"
             THEN fallback(f, Tail(encodings), attempt + 1, fault_at)
             ELSE [raised |-> TRUE, content |-> <<>>, attempts |-> attempt]

\* get_file_content, the read attempt numbered fault_at (0: none) failing with
\* an I/O error: the content read ('' after an error of the first read or
\* when no encoding decodes), or the exception raised to the caller
get_file_content(f, fault_at) ==
    LET r == read_text(f, "utf-8", fault_at = 1)
    IN  IF r.exc = "" THEN [raised |-> FALSE, content |-> r.str, attempts |-> 1]
        ELSE IF r.exc = "UnicodeDecodeError"
        THEN fallback(f, <<"utf-16", "latin1", "gb18030">>, 2, fault_at)
        ELSE [raised |-> FALSE, content |-> <<>>, attempts |-> 1]

\* characters of str(relative_path) and of the language identifier
RelLen(f) == CASE f = 1 -> 7 [] f = 2 -> 4 [] f = 3 -> 8
LangLen(f) == CASE f = 1 -> 6 [] f = 2 -> 6 [] f = 3 -> 6

\* '## {relative_path}\n\n```{lang}\n' + content + '\n```\n\n'
markdown_content(f, content) ==
    <<Run("hash", 2), Run("sp", 1), Run("a", RelLen(f)), Run("nl", 2),
      Run("a", 3 + LangLen(f)), Run("nl", 1)>>
    \o content
    \o <<Run("nl", 1), Run("a", 3), Run("nl", 2)>>

\* the document header of run (lines 257-264) for a source_dir name of
\* name_len characters, with the languages line (langs: characters of the
\* joined names, 0 when no language is configured) and the count of files
header_text(name_len, langs, digits) ==
    <<Run("hash", 1), Run("sp", 1), Run("a", name_len), Run("sp", 1),
      Run("c3", 7), Run("nl", 2)>>
    \o (IF langs > 0
        THEN <<Run("a", 1), Run("sp", 1), Run("a", 2), Run("c3", 2), Run("a", 3),
               Run("sp", 1), Run("a", langs), Run("nl", 1)>>
        ELSE <<>>)
    \o <<Run("a", 1), Run("sp", 1), Run("a", 2), Run("c3", 4), Run("a", 3),
         Run("sp", 1), Run("a", 10), Run("sp", 1), Run("a", 8), Run("nl", 1)>>
    \o <<Run("a", 1), Run("sp", 1), Run("a", 2), Run("c3", 4), Run("a", 3),
         Run("sp", 1), Run("a", digits), Run("nl", 2)>>
    \o <<Run("a", 3), Run("nl", 2)>>

\* -------------------------------------------------------------------- state

VARIABLES
    cfg,          \* the CodesMerger's split_size (KB), n_threads, force_overwrite
    disk0,        \* the output directory as it was before the run
    disk,         \* the output directory: path -> the pieces the file holds
    fw,           \* the FileWriter's fields
    files,        \* what find_files returned
    files_queue,  \* self.files_queue
    file_lock,    \* self.file_lock: 0 when free, else the thread holding it
    cpc,          \* where the coordinator (thread 0) is in run
    spawned,      \* worker threads started so far
    joined,       \* worker threads joined so far
    wpc,          \* where each worker thread is
    wfile,        \* the file_path each worker is processing
    wr,           \* per thread, the locals of its write call
    popped,       \* per source file, how often it was popped from the queue
    readout,      \* per source file, how its read went: "", "text", "empty", "raised"
    handed,       \* the blocks handed to file_writer.write, in call order
    faults,       \* I/O errors raised so far
    writes,       \* write calls made so far on a writer used on its own
    scan          \* the CodesMerger under construction and its find_files

vars == <<cfg, disk0, disk, fw, files, files_queue, file_lock, cpc, spawned, joined,
          wpc, wfile, wr, popped, readout, handed, faults, writes, scan>>

\* no merger is being constructed: the run and the writer are followed
NoScan == [pc |-> "none"]

Threads == 0..MaxThreads
Workers == 1..cfg.n_threads

\* the block id of the document header among the write calls of a run
HeaderBlk == 0

\* the bytes a file held before the run
OrigPiece == Piece(-1, -1, <<Run("a", 16)>>, FALSE, FALSE)

\* the path the writer opens first: base_filename, or {stem}_1{suffix}
FirstPath(split_size) == IF split_size = 0 THEN 0 ELSE 1

NoWriter ==
    [split_size |-> 0, force_overwrite |-> FALSE, current_file_index |-> 0,
     current_file |-> 0, current_size |-> 0, header |-> None,
     generated_files |-> <<>>]

\* a call of write: the id of the call and the text passed
Call(blk, text) == [blk |-> blk, text |-> text]

NoWrite == [remaining |-> <<>>, blk |-> -1, off |-> 0]

\* self.n_threads = max(1, min(n_threads, 16))
clamp_threads(n) == Max(1, Min(n, 16))

\* sequences of distinct source files, in enumeration order, discovery may return
RECURSIVE Ascending(_)
Ascending(q) == Len(q) <= 1 \/ (q[1] < q[2] /\ Ascending(Tail(q)))
WorkSets ==
    {q \in UNION {[1..n -> SourceFiles] : n \in 0..MaxWork} : Ascending(q)}

Init ==
    /\ cfg \in [split_size : 0..MaxSplitKB,
                n_threads : {clamp_threads(n) : n \in 1..MaxThreads},
                force_overwrite : BOOLEAN]
    /\ \E exists \in BOOLEAN :
          disk0 = IF exists THEN (FirstPath(cfg.split_size) :> <<OrigPiece>>) ELSE <<>>
    /\ disk = disk0
    /\ fw = NoWriter
    /\ files = <<>>
    /\ files_queue = <<>>
    /\ file_lock = 0
    /\ cpc = "find"
    /\ spawned = 0
    /\ joined = 0
    /\ wpc = [t \in 1..MaxThreads |-> "unstarted"]
    /\ wfile = [t \in 1..MaxThreads |-> 0]
    /\ wr = [t \in Threads |-> NoWrite]
    /\ popped = [f \in SourceFiles |-> 0]
    /\ readout = [f \in SourceFiles |-> ""]
    /\ handed = <<>>
    /\ faults = 0
    /\ writes = 0
    /\ scan = NoScan


\* ---------------------------------------------------------------- the lock

\* `with self.file_lock:` lets a thread in only while no thread holds the lock
LockUnguarded == TRUE
LockFree == file_lock = 0

\* an I/O call of the writer may raise OSError (disk full, permissions)
MayFault == faults < MaxFaults

\* the writer state a raising iteration leaves behind: a roll-over due at its
\* top has already advanced the index and the current path when the I/O fails
fault_iter(s) ==
    IF s.fw.split_size > 0 /\ Max(0, s.fw.split_size - s.fw.current_size) = 0
    THEN [s EXCEPT !.fw.current_file_index = @ + 1,
                   !.fw.current_file = s.fw.current_file_index + 1]
    ELSE s

InBounds(s) == s.fw.current_file_index <= MaxFiles

\* ------------------------------------------------------- coordinator (run)

RunFindNoCheck ==
    /\ cpc = "find"
    /\ \E q \in WorkSets :
          /\ files' = q
          /\ cpc' = "construct"
    /\ UNCHANGED <<cfg, disk0, scan, readout, disk, fw, files_queue, file_lock, spawned, joined, wpc,
                   wfile, wr, popped, handed, faults, writes>>

\* files = self.find_files(); an empty list ends run at once
RunFind ==
    /\ cpc = "find"
    /\ \E q \in WorkSets :
          /\ files' = q
          /\ cpc' = IF q = <<>> THEN "returned" ELSE "construct"
    /\ UNCHANGED <<cfg, disk0, scan, readout, disk, fw, files_queue, file_lock, spawned, joined, wpc,
                   wfile, wr, popped, handed, faults, writes>>

\* file_writer = FileWriter(...): no path of the constructor raises
\* FileExistsError, so the except clause of run is never taken
RunConstruct ==
    /\ cpc = "construct"
    /\ LET s == FileWriter(disk, cfg.split_size, cfg.force_overwrite)
       IN  /\ fw' = s.fw
           /\ disk' = s.disk
    /\ cpc' = "header"
    /\ UNCHANGED <<cfg, disk0, scan, readout, files, files_queue, file_lock, spawned, joined, wpc,
                   wfile, wr, popped, handed, faults, writes>>

\* file_writer.write(header), called without the lock: its head ...
RunHeader ==
    /\ cpc = "header"
    /\ LET r == write_begin([fw |-> fw, disk |-> disk],
                            header_text(6, 6, 1), HeaderBlk)
       IN  /\ fw' = r.s.fw
           /\ disk' = r.s.disk
           /\ wr' = [wr EXCEPT ![0] = r.w]
           /\ cpc' = IF r.more THEN "header_loop" ELSE "enqueue"
    /\ handed' = Append(handed, Call(HeaderBlk, header_text(6, 6, 1)))
    /\ UNCHANGED <<cfg, disk0, scan, readout, files, files_queue, file_lock, spawned, joined, wpc,
                   wfile, popped, faults, writes>>

\* ... and one iteration of its splitting loop
RunHeaderLoop ==
    /\ cpc = "header_loop"
    /\ LET r == write_iter([fw |-> fw, disk |-> disk], wr[0])
       IN  /\ InBounds(r.s)
           /\ fw' = r.s.fw
           /\ disk' = r.s.disk
           /\ wr' = [wr EXCEPT ![0] = r.w]
           /\ cpc' = IF r.more THEN "header_loop" ELSE "enqueue"
    /\ UNCHANGED <<cfg, disk0, scan, readout, files, files_queue, file_lock, spawned, joined, wpc,
                   wfile, popped, handed, faults, writes>>

\* the header write raises: run raises, main logs the error and exits 1
RunHeaderFault ==
    /\ MayFault
    /\ \/ /\ cpc = "header"
          /\ cfg.split_size = 0
          /\ fw' = capture_header(fw, header_text(6, 6, 1))
          /\ handed' = Append(handed, Call(HeaderBlk, header_text(6, 6, 1)))
       \/ /\ cpc = "header_loop"
          /\ fw' = fault_iter([fw |-> fw, disk |-> disk]).fw
          /\ handed' = handed
    /\ faults' = faults + 1
    /\ cpc' = "failed"
    /\ UNCHANGED <<cfg, disk0, scan, readout, disk, files, files_queue, file_lock, spawned, joined, wpc,
                   wfile, wr, popped, writes>>

\* for file_path in files: self.files_queue.put(file_path)
RunEnqueue ==
    /\ cpc = "enqueue"
    /\ files_queue' = files
    /\ cpc' = "spawn"
    /\ UNCHANGED <<cfg, disk0, scan, readout, disk, fw, files, file_lock, spawned, joined, wpc, wfile,
                   wr, popped, handed, faults, writes>>

\* thread.start() for each of the n_threads workers (lines 282-286); a
\* started thread that has not run yet is at its first get
RunSpawn ==
    /\ cpc = "spawn"
    /\ spawned' = cfg.n_threads
    /\ wpc' = [t \in 1..MaxThreads |-> IF t <= cfg.n_threads THEN "get" ELSE wpc[t]]
    /\ cpc' = "join"
    /\ UNCHANGED <<cfg, disk0, scan, readout, disk, fw, files, files_queue, file_lock, joined, wfile,
                   wr, popped, handed, faults, writes>>

RunJoinEarly ==
    /\ cpc = "join"
    /\ joined' = cfg.n_threads
    /\ cpc' = "close"
    /\ UNCHANGED <<cfg, disk0, scan, readout, disk, fw, files, files_queue, file_lock, spawned, wpc,
                   wfile, wr, popped, handed, faults, writes>>

\* thread.join() for each worker (lines 289-290): the loop is left once
\* every thread has ended, whether it returned or died of an exception
RunJoin ==
    /\ cpc = "join"
    /\ \A t \in 1..cfg.n_threads : wpc[t] \in {"exited", "dead"}
    /\ joined' = cfg.n_threads
    /\ cpc' = "close"
    /\ UNCHANGED <<cfg, disk0, scan, readout, disk, fw, files, files_queue, file_lock, spawned, wpc,
                   wfile, wr, popped, handed, faults, writes>>

\* file_writer.close(); run returns and main logs success
RunClose ==
    /\ cpc = "close"
    /\ cpc' = "done"
    /\ UNCHANGED <<cfg, disk0, scan, readout, disk, fw, files, files_queue, file_lock, spawned, joined,
                   wpc, wfile, wr, popped, handed, faults, writes>>

\* ----------------------------------------------------------------- workers

WorkerGetPeek(t) ==
    /\ wpc[t] = "get"
    /\ IF files_queue = <<>>
       THEN /\ wpc' = [wpc EXCEPT ![t] = "exited"]
            /\ UNCHANGED <<files_queue, wfile, popped>>
       ELSE /\ files_queue' = files_queue
            /\ wfile' = [wfile EXCEPT ![t] = Head(files_queue)]
            /\ popped' = [popped EXCEPT ![Head(files_queue)] = @ + 1]
            /\ wpc' = [wpc EXCEPT ![t] = "process"]
    /\ UNCHANGED <<cfg, disk0, scan, readout, disk, fw, files, file_lock, cpc, spawned, joined, wr,
                   handed, faults, writes>>

WorkerGetBlocking(t) ==
    /\ wpc[t] = "get"
    /\ files_queue # <<>>
    /\ files_queue' = Tail(files_queue)
    /\ wfile' = [wfile EXCEPT ![t] = Head(files_queue)]
    /\ popped' = [popped EXCEPT ![Head(files_queue)] = @ + 1]
    /\ wpc' = [wpc EXCEPT ![t] = "process"]
    /\ UNCHANGED <<cfg, disk0, scan, readout, disk, fw, files, file_lock, cpc, spawned, joined, wr,
                   handed, faults, writes>>

\* self.files_queue.get(block=False): queue.Empty ends the worker
WorkerGet(t) ==
    /\ wpc[t] = "get"
    /\ IF files_queue = <<>>
       THEN /\ wpc' = [wpc EXCEPT ![t] = "exited"]
            /\ UNCHANGED <<files_queue, wfile, popped>>
       ELSE /\ files_queue' = Tail(files_queue)
            /\ wfile' = [wfile EXCEPT ![t] = Head(files_queue)]
            /\ popped' = [popped EXCEPT ![Head(files_queue)] = @ + 1]
            /\ wpc' = [wpc EXCEPT ![t] = "process"]
    /\ UNCHANGED <<cfg, disk0, scan, readout, disk, fw, files, file_lock, cpc, spawned, joined, wr,
                   handed, faults, writes>>

\* the read attempts of get_file_content at which an I/O error may strike
FaultPoints(f) ==
    {0} \cup (IF MayFault /\ can_open(f) THEN 1..get_file_content(f, 0).attempts ELSE {})

\* process_file up to the lock: an empty content returns, and the worker
\* goes on to its next get; an exception out of get_file_content is logged
\* and raised again by process_file and by worker, and ends the thread
WorkerProcess(t) ==
    /\ wpc[t] = "process"
    /\ \E fault_at \in FaultPoints(wfile[t]) :
          LET f == wfile[t]
              r == get_file_content(f, fault_at)
          IN  /\ faults' = faults + (IF fault_at > 0 THEN 1 ELSE 0)
              /\ readout' = [readout EXCEPT ![f] =
                               IF r.raised THEN "raised"
                               ELSE IF Truthy(r.content) THEN "text" ELSE "empty"]
              /\ wpc' = [wpc EXCEPT ![t] =
                           IF r.raised THEN "dead"
                           ELSE IF Truthy(r.content) THEN "write" ELSE "get"]
              /\ wr' = [wr EXCEPT ![t] =
                          IF ~r.raised /\ Truthy(r.content)
                          THEN [remaining |-> markdown_content(f, r.content),
                                blk |-> f, off |-> 0]
                          ELSE @]
    /\ UNCHANGED <<cfg, disk0, scan, disk, fw, files, files_queue, file_lock, cpc, spawned,
                   joined, wfile, popped, handed, writes>>

\* with self.file_lock: file_writer.write(markdown_content), its head ...
WorkerWrite(t) ==
    /\ wpc[t] = "write"
    /\ LockFree
    /\ LET r == write_begin([fw |-> fw, disk |-> disk], wr[t].remaining, wfile[t])
       IN  /\ fw' = r.s.fw
           /\ disk' = r.s.disk
           /\ wr' = [wr EXCEPT ![t] = r.w]
           /\ wpc' = [wpc EXCEPT ![t] = IF r.more THEN "loop" ELSE "get"]
           /\ file_lock' = IF r.more THEN t ELSE 0
           /\ handed' = Append(handed, Call(wfile[t], wr[t].remaining))
    /\ UNCHANGED <<cfg, disk0, scan, readout, files, files_queue, cpc, spawned, joined, wfile,
                   popped, faults, writes>>

\* ... and one iteration of its splitting loop; the lock is released when
\* write returns
WorkerWriteLoop(t) ==
    /\ wpc[t] = "loop"
    /\ LET r == write_iter([fw |-> fw, disk |-> disk], wr[t])
       IN  /\ InBounds(r.s)
           /\ fw' = r.s.fw
           /\ disk' = r.s.disk
           /\ wr' = [wr EXCEPT ![t] = r.w]
           /\ wpc' = [wpc EXCEPT ![t] = IF r.more THEN "loop" ELSE "get"]
           /\ file_lock' = IF r.more THEN file_lock ELSE 0
    /\ UNCHANGED <<cfg, disk0, scan, readout, files, files_queue, cpc, spawned, joined, wfile, popped,
                   handed, faults, writes>>

\* the write raises: the with statement releases the lock, process_file and
\* worker log and re-raise, and the exception ends this thread only
WorkerFault(t) ==
    /\ MayFault
    /\ \/ /\ wpc[t] = "write"
          /\ LockFree
          /\ cfg.split_size = 0
          /\ fw' = capture_header(fw, wr[t].remaining)
          /\ handed' = Append(handed, Call(wfile[t], wr[t].remaining))
          /\ wr' = wr
       \/ /\ wpc[t] = "loop"
          /\ fw' = fault_iter([fw |-> fw, disk |-> disk]).fw
          /\ UNCHANGED <<handed, wr>>
    /\ faults' = faults + 1
    /\ file_lock' = 0
    /\ wpc' = [wpc EXCEPT ![t] = "dead"]
    /\ UNCHANGED <<cfg, disk0, scan, readout, disk, files, files_queue, cpc, spawned, joined, wfile,
                   popped, writes>>

Next ==
    \/ RunFind
    \/ RunConstruct
    \/ RunHeader
    \/ RunHeaderLoop
    \/ RunHeaderFault
    \/ RunEnqueue
    \/ RunSpawn
    \/ RunJoin
    \/ RunClose
    \/ \E t \in Workers : WorkerGet(t)
    \/ \E t \in Workers : WorkerProcess(t)
    \/ \E t \in Workers : WorkerWrite(t)
    \/ \E t \in Workers : WorkerWriteLoop(t)
    \/ \E t \in Workers : WorkerFault(t)

Spec == Init /\ [][Next]_vars

\* the steps of the coordinator and of worker t that the program takes by
\* itself, outside the splitting loop of write; an I/O error of a write is
\* the file system's doing
RunStep ==
    RunFind \/ RunConstruct \/ RunHeader \/ RunEnqueue \/ RunSpawn \/ RunJoin \/ RunClose
WorkerStep(t) ==
    WorkerGet(t) \/ WorkerProcess(t) \/ WorkerWrite(t)

\* thread t (0: the coordinator) is in the splitting loop and its next
\* iteration can be followed: the state predicate equal to
\* ENABLED <<WorkerWriteLoop(t)>>_vars, and to ENABLED <<RunHeaderLoop>>_vars
LoopEnabled(t) ==
    /\ IF t = 0 THEN cpc = "header_loop" ELSE wpc[t] = "loop"
    /\ InBounds(write_iter([fw |-> fw, disk |-> disk], wr[t]).s)

\* weak fairness of the splitting loop of thread t, WF_vars written out with
\* LoopEnabled for ENABLED: a thread in the loop goes on iterating
LoopFair(t) ==
    \/ []<>~LoopEnabled(t)
    \/ IF t = 0 THEN []<><<RunHeaderLoop>>_vars ELSE []<><<WorkerWriteLoop(t)>>_vars

\* the run under a scheduler that lets every thread that can take a step
\* take one in the end: the main thread and each started thread run on
FairSpec ==
    /\ Spec
    /\ WF_vars(RunStep)
    /\ \A t \in 1..MaxThreads : WF_vars(WorkerStep(t))
    /\ \A t \in Threads : LoopFair(t)


\* ------------------------------------------- a FileWriter used on its own

\* '# ' and n further ASCII characters: a text the writer takes for a header
hash_text(n) == <<Run("hash", 1), Run("sp", 1), Run("a", n)>>

\* the texts a caller passes to write, for a budget of B bytes (of KB bytes
\* when there is none): headers that leave 3, 1, 0 and -1 bytes of a split
\* file free, a short header, and contents of every character width, with
\* and without newlines, shorter and longer than a forced chunk and a file,
\* one of them a byte short of a file
ApiTexts(B) ==
    LET b == IF B = 0 THEN KB ELSE B
    IN  {hash_text(b - 2 - d) : d \in {3, 1, 0, -1}}
        \cup {<<Run("hash", 1), Run("sp", 1), Run("a", 1), Run("nl", 1)>>,
              <<Run("c2", 2), Run("c3", 1)>>,
              <<Run("a", 2), Run("nl", 1), Run("c4", 1), Run("c2", 1)>>,
              <<Run("c3", ForcedLen + 50)>>,
              <<Run("nl", 1), Run("a", b)>>,
              <<Run("a", b - 1)>>,
              <<Run("a", 700), Run("nl", 1), Run("c2", 300), Run("nl", 1)>>}

WInit ==
    /\ cfg \in [split_size : 0..MaxSplitKB, n_threads : {1}, force_overwrite : {FALSE}]
    /\ LET s == FileWriter(<<>>, cfg.split_size, cfg.force_overwrite)
       IN  /\ fw = s.fw
           /\ disk = s.disk
    /\ disk0 = <<>>
    /\ files = <<>>
    /\ files_queue = <<>>
    /\ file_lock = 0
    /\ cpc = "api"
    /\ spawned = 0
    /\ joined = 0
    /\ wpc = [t \in 1..MaxThreads |-> "unstarted"]
    /\ wfile = [t \in 1..MaxThreads |-> 0]
    /\ wr = [t \in Threads |-> NoWrite]
    /\ popped = [f \in SourceFiles |-> 0]
    /\ readout = [f \in SourceFiles |-> ""]
    /\ handed = <<>>
    /\ faults = 0
    /\ writes = 0
    /\ scan = NoScan

\* writer.write(text): its head ...
ApiWrite ==
    /\ cpc = "api"
    /\ writes < MaxWrites
    /\ \E text \in ApiTexts(fw.split_size) :
          LET r == write_begin([fw |-> fw, disk |-> disk], text, writes + 1)
          IN  /\ fw' = r.s.fw
              /\ disk' = r.s.disk
              /\ wr' = [wr EXCEPT ![0] = r.w]
              /\ cpc' = IF r.more THEN "api_loop" ELSE "api"
              /\ handed' = Append(handed, Call(writes + 1, text))
    /\ writes' = writes + 1
    /\ UNCHANGED <<cfg, disk0, scan, readout, files, files_queue, file_lock, spawned, joined, wpc,
                   wfile, popped, faults>>

\* ... and one iteration of its splitting loop
ApiWriteLoop ==
    /\ cpc = "api_loop"
    /\ LET r == write_iter([fw |-> fw, disk |-> disk], wr[0])
       IN  /\ InBounds(r.s)
           /\ fw' = r.s.fw
           /\ disk' = r.s.disk
           /\ wr' = [wr EXCEPT ![0] = r.w]
           /\ cpc' = IF r.more THEN "api_loop" ELSE "api"
    /\ UNCHANGED <<cfg, disk0, scan, readout, files, files_queue, file_lock, spawned, joined, wpc,
                   wfile, popped, handed, faults, writes>>

WNext == ApiWrite \/ ApiWriteLoop

SpecW == WInit /\ [][WNext]_vars


\* ------------------------------------------- construction and discovery

\* A name and a pattern are sequences of characters; a path is the sequence
\* of the names from the file system root down, <<>> being '/'.

\* fnmatch.fnmatch(name, pat) on POSIX: '*' stands for any characters, '/'
\* included, '?' for one, everything else for itself; the whole name is matched
RECURSIVE fnmatch(_, _)
fnmatch(name, pat) ==
    IF pat = <<>> THEN name = <<>>
    ELSE IF Head(pat) = "*"
    THEN fnmatch(name, Tail(pat)) \/ (name # <<>> /\ fnmatch(Tail(name), pat))
    ELSE IF name = <<>> THEN FALSE
    ELSE IF Head(pat) = "?" THEN fnmatch(Tail(name), Tail(pat))
    ELSE Head(pat) = Head(name) /\ fnmatch(Tail(name), Tail(pat))

\* path.name: the last component, '' for the root
PathName(path) == IF path = <<>> THEN <<>> ELSE path[Len(path)]

\* str(path)
RECURSIVE PathStr(_)
PathStr(path) ==
    IF path = <<>> THEN <<"/">>
    ELSE IF Len(path) = 1 THEN <<"/">> \o path[1]
    ELSE PathStr(SubSeq(path, 1, Len(path) - 1)) \o <<"/">> \o path[Len(path)]

\* path.parents: every ancestor, up to the root of the file system
Parents(path) == {SubSeq(path, 1, n) : n \in 0..(Len(path) - 1)}

\* path.suffix: the name from its last '.', unless that is the first or the
\* last character of the name
Suffix(path) ==
    LET name == PathName(path)
        dots == {i \in 1..Len(name) : name[i] = "."}
        i == IF dots = {} THEN 0 ELSE CHOOSE j \in dots : \A k \in dots : k <= j
    IN  IF 1 < i /\ i < Len(name) THEN SubSeq(name, i, Len(name)) ELSE <<>>

\* language_config.SUPPORTED_LANGUAGES, the entries for python and html
SUPPORTED_LANGUAGES ==
    [python |-> {<<".", "p", "y">>, <<".", "p", "y", "w">>, <<".", "p", "y", "x">>},
     html |-> {<<".", "h", "t", "m", "l">>, <<".", "h", "t", "m">>, <<".", "c", "s", "s">>}]

\* language_config.FILE_EXTENSION_LANGUAGE_MAP, the entries for the
\* extensions of python and html
FILE_EXTENSION_LANGUAGE_MAP ==
    (<<".", "p", "y">> :> "python") @@ (<<".", "p", "y", "w">> :> "python")
    @@ (<<".", "p", "y", "x">> :> "python") @@ (<<".", "h", "t", "m", "l">> :> "html")
    @@ (<<".", "h", "t", "m">> :> "html") @@ (<<".", "c", "s", "s">> :> "html")

\* str.lower, on the letters that occur in upper case
lower_char(c) ==
    CASE c = "P" -> "p" [] c = "Y" -> "y" [] c = "C" -> "c" [] c = "S" -> "s"
      [] OTHER -> c
lower(str) == [i \in 1..Len(str) |-> lower_char(str[i])]

\* utils.get_language_by_extension
get_language_by_extension(file_path) ==
    LET extension == lower(Suffix(file_path))
    IN  IF extension \in DOMAIN FILE_EXTENSION_LANGUAGE_MAP
        THEN FILE_EXTENSION_LANGUAGE_MAP[extension] ELSE "plaintext"

\* source_dir, absolute: /t/p
SourceDir == << <<"t">>, <<"p">> >>

\* what source_dir.rglob('*') yields, in its order: the path, whether it is a
\* file, and the source file (of SourceFiles) whose bytes it holds
Entry(rel, is_file, src) == [path |-> SourceDir \o rel, is_file |-> is_file, src |-> src]
Tree ==
    << Entry(<< <<"a", ".", "p", "y">> >>, TRUE, 3),
       Entry(<< <<"b", ".", "c", "s", "s">> >>, TRUE, 1),
       Entry(<< <<"l", "i", "b">> >>, FALSE, 0),
       Entry(<< <<"l", "i", "b">>, <<"c", ".", "p", "y">> >>, TRUE, 2),
       Entry(<< <<"l", "i", "b">>, <<"d", ".", "t", "x", "t">> >>, TRUE, 3) >>

\* the language names, include patterns and ignore patterns a merger is
\* configured with: 'cobol' is no supported language; '*/lib/*' matches by
\* the full path only; 't' is the name of the directory above source_dir
\* and '/t' its full path
LangNames == {"python", "html", "cobol"}
FilePatterns == {<<"*", ".", "p", "y">>, <<"*", "/", "l", "i", "b", "/", "*">>}
IgnorePatterns == {<<"l", "i", "b">>, <<"*", ".", "c", "s", "s">>, <<"t">>, <<"/", "t">>}

\* the lists of at most n elements of S
Lists(S, n) == UNION {[1..k -> S] : k \in 0..n}

RECURSIVE load_extensions_lenient(_, _)
load_extensions_lenient(languages, extensions) ==
    IF languages = <<>> THEN [exc |-> "", extensions |-> extensions]
    ELSE load_extensions_lenient(Tail(languages),
             extensions \cup (IF Head(languages) \in DOMAIN SUPPORTED_LANGUAGES
                              THEN SUPPORTED_LANGUAGES[Head(languages)] ELSE {}))

\* the loop over self.languages (lines 75-80): the extensions gathered, up
\* to the first language that is not supported
RECURSIVE load_extensions(_, _)
load_extensions(languages, extensions) ==
    IF languages = <<>> THEN [exc |-> "", extensions |-> extensions]
    ELSE IF Head(languages) \notin DOMAIN SUPPORTED_LANGUAGES
    THEN [exc |-> "ValueError", extensions |-> extensions]
    ELSE load_extensions(Tail(languages),
                         extensions \cup SUPPORTED_LANGUAGES[Head(languages)])

RECURSIVE matches_name_only(_, _)
matches_name_only(file_path, patterns) ==
    IF patterns = <<>> THEN FALSE
    ELSE IF fnmatch(PathName(file_path), Head(patterns)) THEN TRUE
    ELSE matches_name_only(file_path, Tail(patterns))

\* utils.matches_pattern and CodesMerger._should_ignore: the same loop
RECURSIVE matches_pattern(_, _)
matches_pattern(file_path, patterns) ==
    IF patterns = <<>> THEN FALSE
    ELSE IF \/ fnmatch(PathName(file_path), Head(patterns))
            \/ fnmatch(PathStr(file_path), Head(patterns))
    THEN TRUE
    ELSE matches_pattern(file_path, Tail(patterns))

should_ignore(path, ignore_patterns) == matches_pattern(path, ignore_patterns)

\* line 155: _should_ignore(file_path) or any(_should_ignore(parent) ...)
is_ignored_self(file_path, ignore_patterns) == should_ignore(file_path, ignore_patterns)
is_ignored_below_root(file_path, ignore_patterns) ==
    \/ should_ignore(file_path, ignore_patterns)
    \/ \E parent \in Parents(file_path) :
          Len(parent) > Len(SourceDir) /\ should_ignore(parent, ignore_patterns)
is_ignored(file_path, ignore_patterns) ==
    \/ should_ignore(file_path, ignore_patterns)
    \/ \E parent \in Parents(file_path) : should_ignore(parent, ignore_patterns)

\* CodesMerger._should_include
include_all(file_path, m) == TRUE
should_include(file_path, m) ==
    IF m.languages = <<>> /\ m.file_patterns = <<>> THEN FALSE
    ELSE IF m.file_patterns # <<>> /\ matches_pattern(file_path, m.file_patterns) THEN TRUE
    ELSE IF m.languages # <<>> /\ Suffix(file_path) \in m.extensions THEN TRUE
    ELSE FALSE

\* every variable but scan
others == <<cfg, disk0, disk, fw, files, files_queue, file_lock, cpc, spawned, joined,
            wpc, wfile, wr, popped, readout, handed, faults, writes>>

\* CodesMerger(...) is about to be called, nothing has run
FInit ==
    /\ scan \in [pc : {"new"},
                 source_exists : BOOLEAN,
                 languages : Lists(LangNames, MaxList),
                 file_patterns : Lists(FilePatterns, MaxList),
                 ignore_patterns : Lists(IgnorePatterns, MaxList),
                 extensions : {{}},
                 pos : {0},
                 found_files : {<<>>},
                 blocks : {<<>>},
                 processed : {0}]
    /\ cfg = [split_size |-> 0, n_threads |-> 1, force_overwrite |-> FALSE]
    /\ disk0 = (0 :> <<OrigPiece>>)
    /\ disk = disk0
    /\ fw = NoWriter
    /\ files = <<>>
    /\ files_queue = <<>>
    /\ file_lock = 0
    /\ cpc = "new"
    /\ spawned = 0
    /\ joined = 0
    /\ wpc = [t \in 1..MaxThreads |-> "unstarted"]
    /\ wfile = [t \in 1..MaxThreads |-> 0]
    /\ wr = [t \in Threads |-> NoWrite]
    /\ popped = [f \in SourceFiles |-> 0]
    /\ readout = [f \in SourceFiles |-> ""]
    /\ handed = <<>>
    /\ faults = 0
    /\ writes = 0

\* CodesMerger.__init__: ValueError for a source_dir that is no directory,
\* and for the first language that is not supported
Construct ==
    /\ scan.pc = "new"
    /\ scan' = IF ~scan.source_exists THEN [scan EXCEPT !.pc = "ValueError"]
               ELSE LET r == load_extensions(scan.languages, {})
                    IN  [scan EXCEPT !.pc = IF r.exc = "" THEN "find" ELSE r.exc,
                                     !.extensions = r.extensions]
    /\ UNCHANGED others

\* find_files, one path of rglob('*') per step
FindVisit ==
    /\ scan.pc = "find"
    /\ scan.pos < Len(Tree)
    /\ LET e == Tree[scan.pos + 1]
           take == /\ e.is_file
                   /\ ~is_ignored(e.path, scan.ignore_patterns)
                   /\ should_include(e.path, scan)
       IN  scan' = [scan EXCEPT !.pos = @ + 1,
                                !.found_files = IF take THEN Append(@, scan.pos + 1) ELSE @]
    /\ UNCHANGED others

\* return found_files
FindReturn ==
    /\ scan.pc = "find"
    /\ scan.pos = Len(Tree)
    /\ scan' = [scan EXCEPT !.pc = "found"]
    /\ UNCHANGED others

\* process_file (lines 180-196) for the files found, in the order of the
\* queue, up to the write: a file without content is skipped, the block of
\* any other is fenced with the language identifier of its extension
ProcessFile ==
    /\ scan.pc = "found"
    /\ scan.processed < Len(scan.found_files)
    /\ LET i == scan.found_files[scan.processed + 1]
           content == get_file_content(Tree[i].src, 0).content
           block == [file |-> i, lang_identifier |-> get_language_by_extension(Tree[i].path)]
       IN  scan' = [scan EXCEPT !.processed = @ + 1,
                                !.blocks = IF Truthy(content) THEN Append(@, block) ELSE @]
    /\ UNCHANGED others

FNext == Construct \/ FindVisit \/ FindReturn \/ ProcessFile

SpecF == FInit /\ [][FNext]_vars


\* --------------------------------------------------------------- properties

Paths == DOMAIN disk

\* the bytes of a sequence of pieces
RECURSIVE SumBytes(_)
SumBytes(ps) == IF ps = <<>> THEN 0 ELSE ByteLen(Head(ps).text) + SumBytes(Tail(ps))

\* the size of a file in bytes
FileSize(p) == SumBytes(disk[p])

IsForced(pc) == pc.forced
IsWritten(pc) == pc.blk >= 0 /\ ~pc.rep

\* the output stream: what write calls appended, the files taken in index
\* order, replicated headers aside
RECURSIVE StreamFrom(_)
StreamFrom(i) ==
    IF \A p \in Paths : p < i THEN <<>>
    ELSE (IF i \in Paths THEN SelectSeq(disk[i], IsWritten) ELSE <<>>) \o StreamFrom(i + 1)
Stream == StreamFrom(0)

\* the text a write call was given
TextOf(blk) == (CHOOSE i \in 1..Len(handed) : handed[i].blk = blk)

Handed(blk) == \E i \in 1..Len(handed) : handed[i].blk = blk
TimesHanded(blk) == Cardinality({i \in 1..Len(handed) : handed[i].blk = blk})

\* the write call of block blk has returned
Returned(blk) ==
    /\ Handed(blk)
    /\ \A t \in 1..MaxThreads : ~(wpc[t] \in {"loop", "dead"} /\ wr[t].blk = blk)
    /\ ~(cpc \in {"header_loop", "api_loop", "failed"} /\ wr[0].blk = blk)

\* the positions of the stream that hold a chunk of block blk
Positions(blk) == {i \in 1..Len(Stream) : Stream[i].blk = blk}

\* the files that hold a chunk of block blk
FilesOf(blk) == {p \in Paths : \E i \in 1..Len(disk[p]) : IsWritten(disk[p][i]) /\ disk[p][i].blk = blk}

\* the chunks of blk stand side by side in the stream, in order, each is the
\* text's characters from where the one before ended, and none is missing
Contiguous(blk) ==
    LET pos == Positions(blk)
        text == handed[TextOf(blk)].text
    IN  /\ pos # {}
        /\ \A i \in pos, k \in pos : \A j \in i..k : j \in pos
        /\ \A i \in pos :
              /\ Stream[i].text = Take(Drop(text, Stream[i].off), Len_(Stream[i].text))
              /\ Stream[i].off = IF i - 1 \in pos
                                 THEN Stream[i - 1].off + Len_(Stream[i - 1].text) ELSE 0
              /\ i + 1 \notin pos => Stream[i].off + Len_(Stream[i].text) = Len_(text)

\* C1 as the spec has it: with a split budget B > 0 every generated file is
\* at most B bytes, the replicated header included, apart from at most one
\* forced-fallback chunk
C1_Original ==
    fw.split_size > 0 =>
        \A p \in Paths :
            LET forced == SelectSeq(disk[p], IsForced)
            IN  \/ FileSize(p) <= fw.split_size
                \/ /\ Len(forced) = 1
                   /\ FileSize(p) - SumBytes(forced) <= fw.split_size

C3_NoInterleaving ==
    \A i \in 1..Len(Stream), k \in 1..Len(Stream) :
        (i < k /\ Stream[i].blk = Stream[k].blk) =>
            \A j \in i..k : Stream[j].blk = Stream[i].blk

C3_Witness ==
    \E t \in Workers, u \in Workers :
        /\ wpc[t] = "loop"
        /\ Cardinality(Positions(wr[t].blk)) >= 2
        /\ wpc[u] = "write"

\* thread t is inside FileWriter.write
InWrite(t) == IF t = 0 THEN cpc = "header_loop" ELSE wpc[t] = "loop"

\* a worker thread is running
Running(t) == wpc[t] \notin {"unstarted", "exited", "dead"}

\* C4: at most one thread is inside write at any time; a worker inside it
\* holds the lock; the coordinator writes the header while no worker runs
\* and closes the writer when no worker runs
C4_MutualExclusion ==
    /\ Cardinality({t \in Threads : InWrite(t)}) <= 1
    /\ \A t \in 1..MaxThreads : InWrite(t) => file_lock = t
    /\ cpc \in {"header", "header_loop", "close", "done"} =>
          \A t \in 1..MaxThreads : ~Running(t)

C4_Witness ==
    \E t \in Workers, u \in Workers :
        /\ InWrite(t)
        /\ file_lock = t
        /\ wpc[u] = "write"
        /\ wr[t].off > 0

\* C5: every chunk appended to a file, forced chunks and replicated headers
\* included, is whole characters: it holds no cut character, and the bytes
\* it takes of the written text, counted from where it starts, end on a
\* code-point boundary
C5_CodePointAligned ==
    \A p \in Paths : \A i \in 1..Len(disk[p]) :
        LET pc == disk[p][i]
        IN  /\ ~HasFragment(pc.text)
            /\ IsWritten(pc) =>
                  ~HasFragment(ByteSlice(Drop(handed[TextOf(pc.blk)].text, pc.off),
                                         ByteLen(pc.text)))

C5_Witness ==
    /\ \E p \in Paths : \E i \in 1..Len(disk[p]) :
          /\ disk[p][i].forced
          /\ disk[p][i].text[1].k \in {"c2", "c3", "c4"}
    /\ \E p \in Paths : \E i \in 1..Len(disk[p]) :
          /\ ~disk[p][i].forced
          /\ IsWritten(disk[p][i])
          /\ i = Len(disk[p])
          /\ LET rest == Drop(handed[TextOf(disk[p][i].blk)].text,
                              disk[p][i].off + Len_(disk[p][i].text))
             IN  /\ rest # <<>>
                 /\ FileSize(p) < fw.split_size
                 /\ FileSize(p) + Width(rest[1].k) > fw.split_size

\* occurrences of f in a sequence of files
Count(q, f) == Cardinality({i \in 1..Len(q) : q[i] = f})

\* C6: a work item is popped at most once and is never lost (it is in the
\* queue or has been popped); when no worker has raised, at the return of
\* join the queue is empty, every discovered file has been read, the block
\* of every file read with content, and of no other, has been handed to the
\* writer once, and no error having struck every file that can be read was
\* read with content
C6_EachItemOnce ==
    /\ \A f \in SourceFiles : popped[f] <= 1
    /\ cpc \in {"spawn", "join", "close", "done"} =>
          \A f \in SourceFiles : popped[f] + Count(files_queue, f) = Count(files, f)
    /\ (cpc \in {"close", "done"} /\ \A t \in 1..MaxThreads : wpc[t] # "dead") =>
          /\ files_queue = <<>>
          /\ \A f \in SourceFiles :
                /\ TimesHanded(f) = IF readout[f] = "text" THEN 1 ELSE 0
                /\ readout[f] # "" <=> Count(files, f) = 1
                /\ (Count(files, f) = 1 /\ can_open(f) /\ faults = 0)
                      => (readout[f] = "text" /\ Returned(f))

C6_Witness ==
    /\ cpc = "close"
    /\ cfg.n_threads >= 2
    /\ Len(files) >= 2
    /\ \A t \in Workers : wpc[t] = "exited"
    /\ \A i \in 1..Len(files) : popped[files[i]] = 1

\* the output path existed before the run and overwriting is not forced
Collision == FirstPath(cfg.split_size) \in DOMAIN disk0 /\ ~cfg.force_overwrite

\* C7 as the spec has it: on a collision the constructor of the writer
\* fails, so no writer comes to exist and nothing is written
C7_Original ==
    Collision => (fw = NoWriter /\ disk = disk0)

\* C8 as the spec has it: on a collision the run does not end in success and
\* the file keeps its bytes
C8_Original ==
    Collision =>
        /\ cpc # "done"
        /\ disk[FirstPath(cfg.split_size)] = disk0[FirstPath(cfg.split_size)]

\* C9 as the spec has it: run does not return normally when a worker has
\* raised or files are left in the queue
C9_Original ==
    cpc = "done" =>
        /\ \A t \in 1..MaxThreads : wpc[t] # "dead"
        /\ files_queue = <<>>

\* a worker has died of an exception raised inside FileWriter.write
DiedInWrite(t) == wpc[t] = "dead" /\ readout[wfile[t]] = "text"

\* C10 as the spec has it: a file whose read fails or gives no content
\* leaves no chunk in any output file and is not handed to the writer, and
\* does not stop the run: at the return of join, no write having raised,
\* every queued file has been popped
C10_Original ==
    /\ \A f \in SourceFiles :
          readout[f] \in {"empty", "raised"} => (FilesOf(f) = {} /\ ~Handed(f))
    /\ (cpc \in {"close", "done"} /\ \A t \in 1..MaxThreads : ~DiedInWrite(t)) =>
          /\ files_queue = <<>>
          /\ \A i \in 1..Len(files) : popped[files[i]] = 1

\* the header write has been made and has returned
HeaderWritten == Returned(HeaderBlk)

\* C11: the document header is handed to the writer once, as the first write
\* the writer receives and the first chunk of the stream; no worker has
\* started and no file block has been handed over before that write has
\* returned, and from then on it is the text captured for replication
C11_HeaderFirst ==
    /\ TimesHanded(HeaderBlk) <= 1
    /\ handed # <<>> => handed[1].blk = HeaderBlk
    /\ Stream # <<>> => Stream[1].blk = HeaderBlk
    /\ (\/ \E t \in 1..MaxThreads : wpc[t] # "unstarted"
        \/ \E i \in 1..Len(handed) : handed[i].blk # HeaderBlk
        \/ cpc \in {"enqueue", "spawn", "join", "close", "done"}) =>
          /\ HeaderWritten
          /\ fw.header = header_text(6, 6, 1)

C11_Witness ==
    /\ cpc = "join"
    /\ \E t \in Workers : wpc[t] = "loop"
    /\ fw.header = header_text(6, 6, 1)
    /\ \E p \in Paths : p > 1 /\ disk[p] # <<>> /\ disk[p][1].rep

\* C12: a step that creates an output file of index > 1 while a header is
\* captured leaves that file starting with exactly the header text, written
\* once, before any other content; and the writer's current size is the
\* bytes of its current file, header included: the header's byte length
\* when the file holds nothing else yet
C12_HeaderSeeded ==
    [][\A p \in (DOMAIN disk') \ (DOMAIN disk) :
          (p > 1 /\ Truthy(fw.header)) =>
              /\ disk'[p] # <<>>
              /\ disk'[p][1] = Piece(-1, -1, fw.header, FALSE, TRUE)
              /\ \A i \in 2..Len(disk'[p]) : ~disk'[p][i].rep
              /\ fw'.header = fw.header
              /\ fw'.current_file = p => fw'.current_size = SumBytes(disk'[p])
              /\ (fw'.current_file = p /\ Len(disk'[p]) = 1) =>
                    fw'.current_size = ByteLen(fw.header)]_vars

C12_Witness ==
    /\ Truthy(fw.header)
    /\ \E p \in Paths, q \in Paths :
          /\ p > 1 /\ q > p
          /\ Len(disk[p]) >= 2 /\ disk[p][1].rep /\ disk[p][1].text = fw.header
          /\ fw.current_file = q
          /\ disk[q] = <<Piece(-1, -1, fw.header, FALSE, TRUE)>>
          /\ fw.current_size = ByteLen(fw.header)

\* C13: with a budget the files generated are, in creation order, those of
\* index 1, 2, ..., n, n the writer's current index, without gap or repeat,
\* and a step raises the index by one for every file it creates; without a
\* budget the one file generated is the base name
C13_IndicesGapFree ==
    /\ fw.split_size > 0 =>
          /\ Len(fw.generated_files) = fw.current_file_index
          /\ \A i \in 1..Len(fw.generated_files) : fw.generated_files[i] = i
          /\ fw.current_file = fw.current_file_index
          /\ Paths = 1..fw.current_file_index
    /\ fw.split_size = 0 =>
          /\ fw.generated_files = <<0>>
          /\ fw.current_file = 0
          /\ Paths = {0}

C13_Witness ==
    /\ fw.split_size > 0
    /\ cpc = "api"
    /\ writes >= 2
    /\ fw.current_file_index >= 4
    /\ \A p \in Paths : disk[p] # <<>>

\* C14 as the spec has it: the splitting loop makes forward progress, every
\* iteration of `while remaining` leaves less text to write than it found
C14_Original ==
    cpc = "api_loop" =>
        Len_(write_iter([fw |-> fw, disk |-> disk], wr[0]).w.remaining) < Len_(wr[0].remaining)

\* C18 as the spec has it: get_file_content never raises to its caller,
\* whatever the file and whichever of its reads fails
C18_Original ==
    \A f \in SourceFiles : readout[f] # "raised"

\* the files of the tree, and those discovery has put in its work set
TreeFiles == {i \in 1..Len(Tree) : Tree[i].is_file}
Found(i) == \E k \in 1..Len(scan.found_files) : scan.found_files[k] = i

\* a pattern matches a path by its bare name or by its full string
Matches(path, pat) == fnmatch(PathName(path), pat) \/ fnmatch(PathStr(path), pat)

\* an ignore pattern matches the file or one of its ancestors
Ignored(i) ==
    \E k \in 1..Len(scan.ignore_patterns) :
        \E a \in {Tree[i].path} \cup Parents(Tree[i].path) :
            Matches(a, scan.ignore_patterns[k])

\* the file matches an include pattern, or has the extension of a configured
\* language
Selected(i) ==
    \/ \E k \in 1..Len(scan.file_patterns) : Matches(Tree[i].path, scan.file_patterns[k])
    \/ \E k \in 1..Len(scan.languages) :
          /\ scan.languages[k] \in DOMAIN SUPPORTED_LANGUAGES
          /\ Suffix(Tree[i].path) \in SUPPORTED_LANGUAGES[scan.languages[k]]

\* the file has a block in the output of a run no error strikes: it is in
\* the work set and process_file reads content from it
Appears(i) == Found(i) /\ Truthy(get_file_content(Tree[i].src, 0).content)

Configured == scan.languages # <<>> \/ scan.file_patterns # <<>>

\* C15 as the spec has it: with a language or a pattern configured, a file
\* appears in the output if and only if it is not ignored and is selected
C15_Original ==
    (scan.pc = "found" /\ Configured) =>
        \A i \in TreeFiles : Appears(i) <=> (~Ignored(i) /\ Selected(i))

\* C15 as amended: with a language or a pattern configured, a path is in the
\* work set if and only if it is a file, not ignored, and selected, and it is
\* there once; a file appears in the output if and only if in addition its
\* read gives content
C15_WorkSet ==
    (scan.pc \in {"find", "found"} /\ Configured) =>
        /\ \A i \in 1..Len(Tree) :
              Found(i) <=> (i <= scan.pos /\ Tree[i].is_file /\ ~Ignored(i) /\ Selected(i))
        /\ \A k \in 1..Len(scan.found_files), l \in 1..Len(scan.found_files) :
              scan.found_files[k] = scan.found_files[l] => k = l
        /\ \A i \in TreeFiles :
              Appears(i) <=> (i <= scan.pos /\ ~Ignored(i) /\ Selected(i)
                              /\ Truthy(get_file_content(Tree[i].src, 0).content))

C15_Witness ==
    /\ scan.pc = "found"
    /\ Len(scan.languages) = 2 /\ scan.file_patterns # <<>>
    /\ \E i \in TreeFiles : Found(i) /\ ~Appears(i)
    /\ \E i \in TreeFiles : Appears(i) /\ Suffix(Tree[i].path) \notin scan.extensions
    /\ \E i \in TreeFiles : Selected(i) /\ Ignored(i)

\* C16: with no language and no pattern configured the work set is empty
C16_FailClosed ==
    (scan.languages = <<>> /\ scan.file_patterns = <<>>) => scan.found_files = <<>>

C16_Witness ==
    /\ scan.pc = "found"
    /\ scan.languages = <<>> /\ scan.file_patterns = <<>>
    /\ scan.ignore_patterns = <<>>
    /\ scan.found_files = <<>>

\* C17: a file is not in the work set when an ignore pattern matches the
\* file or any directory above it, by name or by full path, selected or not
C17_IgnorePrecedence ==
    \A i \in TreeFiles : Ignored(i) => ~Found(i)

C17_Witness ==
    /\ scan.pc = "found"
    /\ \E i \in TreeFiles :
          /\ Selected(i) /\ Ignored(i)
          /\ \A k \in 1..Len(scan.ignore_patterns) :
                ~Matches(Tree[i].path, scan.ignore_patterns[k])
    /\ \E j \in TreeFiles : Found(j)

\* C19 as the spec has it: constructing the merger on a source directory
\* that does not exist ends in SystemExit
C19_Original ==
    (scan.pc \notin {"none", "new"} /\ ~scan.source_exists) => scan.pc = "SystemExit"

\* a configured language is not supported
BadLanguage ==
    \E k \in 1..Len(scan.languages) : scan.languages[k] \notin DOMAIN SUPPORTED_LANGUAGES

\* C20: a merger configured with an unsupported language is not constructed,
\* the constructor raises ValueError: no path has been enumerated, nothing
\* is enqueued, no worker is started, no writer exists and the output
\* directory is as it was
C20_InvalidLanguage ==
    (scan.pc \notin {"none", "new"} /\ BadLanguage) =>
        /\ scan.pc = "ValueError"
        /\ scan.pos = 0 /\ scan.found_files = <<>>
        /\ files = <<>> /\ files_queue = <<>>
        /\ \A t \in 1..MaxThreads : wpc[t] = "unstarted"
        /\ fw = NoWriter
        /\ disk = disk0

C20_Witness ==
    /\ scan.pc = "ValueError"
    /\ scan.source_exists
    /\ Len(scan.languages) = 2
    /\ scan.languages[1] \in DOMAIN SUPPORTED_LANGUAGES
    /\ scan.extensions # {}

\* C21 as the spec has it: the block of a .css file is fenced with the
\* language token css, whatever filter included the file
C21_Original ==
    \A k \in 1..Len(scan.blocks) :
        Suffix(Tree[scan.blocks[k].file].path) = <<".", "c", "s", "s">> =>
            scan.blocks[k].lang_identifier = "css"

\* the phase of the pipeline the coordinator is in: 1 Discovering, 2 Writing
\* (the writer is set up, the header written, the workers started), 3
\* Draining, 4 Closed; 0 when run has returned early or raised
Phase(c) ==
    CASE c = "find" -> 1
      [] c \in {"construct", "header", "header_loop", "enqueue", "spawn"} -> 2
      [] c = "join" -> 3
      [] c \in {"close", "done"} -> 4
      [] OTHER -> 0

\* C22: the run moves from each phase to the next only, Discovering, Writing,
\* Draining, Closed, and with a non-empty work set it leaves that order only
\* by raising; the writer is closed only when every worker has been started
\* and has ended; and once it is closed no write call is made, no file
\* changes and no worker runs
C22_PhaseOrder ==
    [][/\ Phase(cpc') # Phase(cpc) =>
             \/ Phase(cpc') = Phase(cpc) + 1
             \/ cpc' = "failed"
             \/ cpc' = "returned" /\ files' = <<>>
       /\ cpc' \in {"close", "done"} =>
             /\ spawned' = cfg.n_threads
             /\ joined' = cfg.n_threads
             /\ \A t \in 1..cfg.n_threads : wpc'[t] \in {"exited", "dead"}
             /\ file_lock' = 0
       /\ cpc \in {"close", "done"} =>
             /\ handed' = handed
             /\ disk' = disk
             /\ fw' = fw
             /\ wpc' = wpc]_vars

C22_Witness ==
    /\ cpc = "done"
    /\ cfg.n_threads = 2
    /\ Len(files) = 2
    /\ Len(handed) = 3
    /\ Cardinality(Paths) >= 3
    /\ \A t \in Workers : wpc[t] = "exited"

\* every started worker has ended, by returning or by an exception
AllEnded == \A t \in 1..cfg.n_threads : wpc[t] \in {"exited", "dead"}

\* C23 as the spec has it: whatever the work set, at least one worker is
\* spawned, every worker exits in the end and the run reaches Closed
C23_Original ==
    <>(cpc \in {"close", "done"} /\ spawned >= 1 /\ AllEnded)

\* once the queue is filled a step adds nothing to it
QueueOnlyShrinks ==
    cpc \in {"spawn", "join", "close", "done"} => Len(files_queue') <= Len(files_queue)

\* C23 as amended: with a non-empty work set, once the header is written the
\* run spawns its workers, at least one, every worker ends in the end and the
\* run reaches Closed and returns; nothing is added to the queue once it is
\* filled; with an empty work set the run returns without spawning a worker
C23_Termination ==
    /\ (cpc = "enqueue") ~> (cpc = "done" /\ spawned >= 1 /\ AllEnded)
    /\ [](cpc \in {"join", "close", "done"} => spawned = cfg.n_threads /\ spawned >= 1)
    /\ [](cpc = "returned" => files = <<>> /\ spawned = 0)
    /\ [][QueueOnlyShrinks]_vars

C23_Witness ==
    /\ cpc = "done"
    /\ cfg.n_threads = 2
    /\ wpc[1] = "exited" /\ wpc[2] = "exited"
    /\ popped[3] = 1
    /\ readout[3] = "text"
    /\ wfile[1] # 3

\* a step captures or changes the header only in the first write call the
\* writer receives, and only to a text that begins with "# "
CaptureOnFirstWrite ==
    fw'.header # fw.header =>
        /\ handed = <<>>
        /\ fw.header = None
        /\ StartsWithHashSpace(fw'.header)

\* C24 as the spec has it: the header is captured by the very first write
\* only, and only from a text that begins with "# "; no later write sets or
\* changes it
C24_Original == [][CaptureOnFirstWrite]_vars

\* the characters of t up to and including its first newline, 0 when it
\* has none
RECURSIVE NextNl(_)
NextNl(t) ==
    IF t = <<>> THEN 0
    ELSE IF Head(t).k = "nl" THEN 1
    ELSE LET r == NextNl(Tail(t)) IN IF r = 0 THEN 0 ELSE Head(t).n + r

HasNl(t) == \E i \in 1..Len(t) : t[i].k = "nl"

\* an iteration of the splitting loop of the writer used on its own is
\* about to run: the file it writes to (the next one when the current file is
\* full), the bytes available in it, and the text it has left
IterFull == Max(0, fw.split_size - fw.current_size) = 0
IterIndex == fw.current_file_index + (IF IterFull THEN 1 ELSE 0)
IterSize ==
    IF IterFull THEN (IF Truthy(fw.header) THEN ByteLen(fw.header) ELSE 0)
    ELSE fw.current_size
IterAvailable == fw.split_size - IterSize
IterRemaining == wr[0].remaining
NoFit == cpc = "api_loop" /\ ByteLen(IterRemaining) > IterAvailable

\* the piece the iteration appended to the file it writes to
IterPiece == disk'[IterIndex][Len(disk'[IterIndex])]

\* the iteration wrote exactly one more piece to its file, advanced the
\* cursor past the characters of that piece, and opened the next file
WroteAndRolled ==
    /\ IterIndex \in DOMAIN disk'
    /\ Len(disk'[IterIndex]) =
          1 + (IF IterFull THEN (IF Truthy(fw.header) THEN 1 ELSE 0) ELSE Len(disk[IterIndex]))
    /\ IterPiece.blk = wr[0].blk /\ IterPiece.off = wr[0].off /\ ~IterPiece.rep
    /\ IterPiece.text = Take(IterRemaining, Len_(IterPiece.text))
    /\ wr'[0].remaining = Drop(IterRemaining, Len_(IterPiece.text))
    /\ wr'[0].off = wr[0].off + Len_(IterPiece.text)
    /\ fw'.current_file_index = IterIndex + 1
    /\ fw'.current_file = IterIndex + 1
    /\ (IterIndex + 1) \in DOMAIN disk'

\* the piece is the longest prefix of whole characters within the available
\* bytes, ended just after its last newline when that is not its first
\* character, and whole otherwise
LongestPrefixToNewline ==
    LET c == IterPiece.text
        n == Len_(c)
        q == NextNl(Drop(IterRemaining, n))
    IN  /\ n >= 1
        /\ ~IterPiece.forced
        /\ ByteLen(c) <= IterAvailable
        /\ \/ /\ n >= 2
              /\ c[Len(c)].k = "nl"
              /\ q > 0 => ByteLen(Take(IterRemaining, n + q)) > IterAvailable
              /\ q = 0 => ByteLen(IterRemaining) > IterAvailable
           \/ /\ ByteLen(Take(IterRemaining, n + 1)) > IterAvailable
              /\ ~HasNl(Drop(c, 1))

\* the piece is the first ForcedLen characters of the text, marked forced
ForcedPrefix ==
    /\ IterPiece.forced
    /\ IterPiece.text = Take(IterRemaining, ForcedLen)

\* C25 as the spec has it: whenever the remaining text does not fit, the
\* chunk written is the longest prefix of whole characters within the
\* available bytes, cut after its last newline when that is at a position
\* > 0, the cursor advances past it and a new file is opened
C25_Original ==
    [][NoFit => (WroteAndRolled /\ LongestPrefixToNewline)]_vars

\* the first character of the remaining text fits in the available bytes
FirstFits == IterAvailable >= Width(IterRemaining[1].k)

\* C25 as amended: when the remaining text does not fit and its first
\* character does, the chunk is that longest prefix, cut after its last
\* newline at a position > 0; when not even the first character fits in the
\* bytes available, none of them negative, the chunk is the first 100
\* characters of the text whatever their size; either way the cursor
\* advances past exactly the characters written and a new file is opened
C25_ChunkChoice ==
    [][/\ (NoFit /\ FirstFits) => (WroteAndRolled /\ LongestPrefixToNewline)
       /\ (NoFit /\ ~FirstFits /\ IterAvailable >= 0) => (WroteAndRolled /\ ForcedPrefix)]_vars

C25_Witness ==
    /\ cpc = "api"
    /\ \E p \in Paths : \E i \in 1..Len(disk[p]) :
          /\ IsWritten(disk[p][i]) /\ ~disk[p][i].forced
          /\ p < fw.current_file_index
          /\ disk[p][i].text[Len(disk[p][i].text)].k = "nl"
          /\ Len_(disk[p][i].text) >= 2
          /\ FileSize(p) + 2 < fw.split_size
    /\ \E p \in Paths : \E i \in 1..Len(disk[p]) :
          /\ IsWritten(disk[p][i]) /\ ~disk[p][i].forced
          /\ disk[p][i].text[1].k = "nl"
          /\ ~HasNl(Drop(disk[p][i].text, 1))
          /\ FileSize(p) = fw.split_size

\* the write calls a single worker makes for the queue q, in order: the
\* block of every file whose read gives content
RECURSIVE worker_calls(_)
worker_calls(q) ==
    IF q = <<>> THEN <<>>
    ELSE LET f == Head(q)
             content == get_file_content(f, 0).content
         IN  (IF Truthy(content) THEN <<Call(f, markdown_content(f, content))>> ELSE <<>>)
             \o worker_calls(Tail(q))

\* the write calls of a run with one worker: the header, then the blocks
single_worker(q) == <<Call(HeaderBlk, header_text(6, 6, 1))>> \o worker_calls(q)

\* how often c occurs in the sequence q, and equality of two sequences as
\* multisets
Occurs(q, c) == Cardinality({i \in 1..Len(q) : q[i] = c})
SameBag(p, q) ==
    \A c \in {p[i] : i \in 1..Len(p)} \cup {q[i] : i \in 1..Len(q)} :
        Occurs(p, c) = Occurs(q, c)

RECURSIVE Norm(_)
Norm(t) ==
    IF Len(t) <= 1 THEN t
    ELSE IF t[1].k = t[2].k
    THEN Norm(<<Run(t[1].k, t[1].n + t[2].n)>> \o SubSeq(t, 3, Len(t)))
    ELSE <<t[1]>> \o Norm(Tail(t))

\* the texts of a sequence of pieces, or of calls, one after the other
RECURSIVE JoinTexts(_)
JoinTexts(ps) == IF ps = <<>> THEN <<>> ELSE Head(ps).text \o JoinTexts(Tail(ps))

\* what reading an output file gives
FileText(p) == Norm(JoinTexts(disk[p]))

\* s.startswith(h)
StartsWith(t, h) == Norm(Take(Norm(t), Len_(h))) = Norm(h)

\* an output file read back, the captured header taken off its start when
\* its index is > 1 and it starts with it
Unheaded(p) ==
    IF p > 1 /\ Truthy(fw.header) /\ StartsWith(FileText(p), fw.header)
    THEN Drop(FileText(p), Len_(fw.header))
    ELSE FileText(p)

\* the generated files read back in index order, headers taken off
RECURSIVE ReadBackFrom(_)
ReadBackFrom(i) ==
    IF \A p \in Paths : p < i THEN <<>>
    ELSE (IF i \in Paths THEN Unheaded(i) ELSE <<>>) \o ReadBackFrom(i + 1)
ReadBack == Norm(ReadBackFrom(0))

\* the texts written, in call order
Written == Norm(JoinTexts(handed))

\* no header is captured, or it is shorter than the budget
HeaderBelowBudget ==
    fw.split_size = 0 \/ ~Truthy(fw.header) \/ ByteLen(fw.header) < fw.split_size

\* C27 as the spec has it: after any sequence of write calls, B = 0 or the
\* captured header shorter than B, the generated files read in index order,
\* the header taken off the start of every file of index > 1, are exactly
\* the texts written, in call order
C27_Original ==
    (cpc = "api" /\ HeaderBelowBudget) => ReadBack = Written

\* the bytes file p held before its piece i was appended
BytesBefore(p, i) == SumBytes(SubSeq(disk[p], 1, i - 1))

\* C28: with a budget B and the captured header, if any, shorter than B, a
\* file larger than B ends with a forced chunk and is smaller than B + 400
\* bytes; and a forced chunk is the last of its file, at most 100
\* characters, written when the file had bytes free but fewer than the first
\* character of the chunk takes
C28_OverrunOnlyForced ==
    (fw.split_size > 0 /\ HeaderBelowBudget) =>
        \A p \in Paths :
            /\ FileSize(p) > fw.split_size =>
                  /\ disk[p] # <<>>
                  /\ disk[p][Len(disk[p])].forced
                  /\ FileSize(p) < fw.split_size + 4 * ForcedLen
            /\ \A i \in 1..Len(disk[p]) :
                  disk[p][i].forced =>
                      /\ i = Len(disk[p])
                      /\ Len_(disk[p][i].text) <= ForcedLen
                      /\ BytesBefore(p, i) < fw.split_size
                      /\ fw.split_size - BytesBefore(p, i) < Width(disk[p][i].text[1].k)

C28_Witness ==
    /\ fw.split_size > 0
    /\ Truthy(fw.header)
    /\ ByteLen(fw.header) < fw.split_size
    /\ \E p \in Paths :
          /\ p > 1
          /\ FileSize(p) > fw.split_size
          /\ disk[p][1].rep
          /\ Len_(disk[p][Len(disk[p])].text) = ForcedLen
    /\ \E p \in Paths : \E i \in 1..Len(disk[p]) :
          disk[p][i].forced /\ Len_(disk[p][i].text) < ForcedLen

\* C29: when discovery returns an empty work set run returns at once: no
\* writer is constructed, no write call is made, nothing is queued, no
\* worker is started, and the output directory is as it was, a file at the
\* output path included
C29_EmptyWorkSet ==
    (cpc # "find" /\ files = <<>>) =>
        /\ cpc = "returned"
        /\ fw = NoWriter
        /\ handed = <<>>
        /\ files_queue = <<>>
        /\ spawned = 0
        /\ \A t \in 1..MaxThreads : wpc[t] = "unstarted"
        /\ disk = disk0

C29_Witness ==
    /\ cpc = "returned"
    /\ cfg.force_overwrite
    /\ FirstPath(cfg.split_size) \in DOMAIN disk
    /\ disk[FirstPath(cfg.split_size)] = <<OrigPiece>>

\* an ignore pattern matches, by name or by full path, the scan root or a
\* directory above it
RootIgnored ==
    \E k \in 1..Len(scan.ignore_patterns) :
        \E a \in {SourceDir} \cup Parents(SourceDir) :
            Matches(a, scan.ignore_patterns[k])

\* C30: when an ignore pattern matches the scan root or a directory above it,
\* discovery finds no file, whatever is selected
C30_RootIgnored ==
    RootIgnored => scan.found_files = <<>>

C30_Witness ==
    /\ scan.pc = "found"
    /\ scan.ignore_patterns = << <<"/", "t">> >>
    /\ RootIgnored
    /\ \E i \in TreeFiles :
          /\ Selected(i)
          /\ ~is_ignored_below_root(Tree[i].path, scan.ignore_patterns)
    /\ scan.found_files = <<>>

=============================================================================
